---- MODULE Spec2Model ----
(***************************************************************************)
(* Model of the document ingestion pipeline of the backend:                *)
(*   - the job queue            (backend/src/services/jobQueue.js)         *)
(*   - the document tracker     (backend/src/services/documentStatusService.js) *)
(*   - the in-memory store      (backend/services/memoryVectorService.js)  *)
(*   - the chunker, processPDF  (backend/src/services/pdfService.js)       *)
(*   - the upload route         (backend/src/routes/pdf.js, last revision) *)
(*                                                                         *)
(* One action is one run-to-completion segment of the Node.js event loop:  *)
(* an HTTP handler, a timer callback, or the continuation of an async      *)
(* function from one I/O await to the next.                                *)
(***************************************************************************)
EXTENDS Integers, Sequences, FiniteSets, TLC

(***************************************************************************)
(* Bounds of the model.                                                    *)
(***************************************************************************)
MaxJobs == 3        \* uploads accepted in one behaviour
MaxTime == 3        \* firings of the cleanup timer in one behaviour
MaxWalk == 4        \* loop iterations of chunkText that are followed
MaxDocs == 2        \* documentIds the tracker is called with directly
MaxCalls == 3       \* calls of the store's functions in one behaviour
MaxBurst == 4       \* uploads accepted in a burst

(***************************************************************************)
(* Program constants.                                                      *)
(***************************************************************************)
maxConcurrent == 2          \* jobQueue.js:10
OneHour == 2                \* jobQueue.js:247, 60*60*1000 ms in timer periods of 30 min
VecChunkSize == 1000        \* memoryVectorService.js:39
VecOverlap == 200           \* memoryVectorService.js:39
DefaultTotalPages == 1      \* pdfService.js:303
MinCharsPerPage == 500      \* pdfService.js:308

(***************************************************************************)
(* JavaScript values.  null / undefined are the empty tuple, a present     *)
(* value v is <<v>>, so that both compare with = .                         *)
(***************************************************************************)
Null == << >>
Undefined == << >>
Some(v) == << v >>

\* a `new Date()` that no code reads back
Date == "Date"

Min(a, b) == IF a < b THEN a ELSE b
Max(a, b) == IF a > b THEN a ELSE b
SetMax(S, dflt) == IF S = {} THEN dflt ELSE CHOOSE x \in S : \A y \in S : y <= x
SetMin(S, dflt) == IF S = {} THEN dflt ELSE CHOOSE x \in S : \A y \in S : x <= y
Abs(a) == IF a < 0 THEN -a ELSE a

\* obj.key of a JavaScript object: undefined when the object has no such key
Prop(obj, key) == IF key \in DOMAIN obj THEN Some(obj[key]) ELSE Undefined

(***************************************************************************)
(* Texts.  A string is [len, special]: its length and the characters that  *)
(* are not the letter "a", by 0-based position.  The alphabet is           *)
(* "a", ".", " " and "\n"; no financial keyword, digit or currency sign    *)
(* can be spelled with it.                                                 *)
(***************************************************************************)
CharAt(text, i) == IF i \in DOMAIN text.special THEN text.special[i] ELSE "a"

IsSpace(c) == c \in {" ", "\n"}

MkText(len, special) == [len |-> len, special |-> special]

\* String.prototype.slice index normalisation
SliceIdx(i, len) == IF i < 0 THEN Max(len + i, 0) ELSE Min(i, len)

\* text.slice(start, end)
Slice(text, start, end) ==
  LET s == SliceIdx(start, text.len)
      e == SliceIdx(end, text.len)
      kept == {r \in DOMAIN text.special : r >= s /\ r < e}
  IN IF e <= s \/ kept = {} THEN MkText(Max(e - s, 0), << >>)
     ELSE MkText(e - s, [p \in {q - s : q \in kept} |-> text.special[p + s]])

\* text.trim(): the leading and trailing run of white space is cut off
Trim(text) ==
  LET spaces == {p \in DOMAIN text.special : p < text.len /\ IsSpace(text.special[p])}
      n == Cardinality(spaces)
      lead == CHOOSE k \in 0 .. n : (0 .. k - 1) \subseteq spaces /\ k \notin spaces
      trail == CHOOSE k \in 0 .. n :
                 /\ (text.len - k .. text.len - 1) \subseteq spaces
                 /\ (text.len - k - 1) \notin spaces
  IN IF lead >= text.len THEN MkText(0, << >>)
     ELSE Slice(text, lead, text.len - trail)

\* text.lastIndexOf(ch, from) for a one-character needle
LastIndexOf(text, ch, from) ==
  SetMax({p \in DOMAIN text.special : p <= from /\ p < text.len /\ text.special[p] = ch}, -1)

\* text.lastIndexOf("\n\n", from)
LastIndexOfDoubleNewline(text, from) ==
  SetMax({p \in DOMAIN text.special :
            /\ p <= from /\ p + 1 < text.len
            /\ text.special[p] = "\n" /\ CharAt(text, p + 1) = "\n"}, -1)

(***************************************************************************)
(* chunkText (pdfService.js:303-514).                                      *)
(***************************************************************************)
\* pdfService.js:313-329.  No text over the alphabet holds a financial keyword.
IsFinancialDoc(text) == FALSE

\* pdfService.js:346-427: the end of the chunk that starts at start
BreakPoint(text, start, end, chunkSize) ==
  LET lastPeriod == LastIndexOf(text, ".", end)
      lastNewline == LastIndexOf(text, "\n", end)
      lastDoubleNewline == LastIndexOfDoubleNewline(text, end)
      \* a > start + chunkSize * 0.3, in integers
      bp1 == IF 10 * lastDoubleNewline > 10 * start + 3 * chunkSize
             THEN << lastDoubleNewline + 2 >> ELSE << >>
      bp2 == IF 10 * lastNewline > 10 * start + 5 * chunkSize
             THEN << lastNewline + 1 >> ELSE << >>
      bp3 == IF 10 * lastPeriod > 10 * start + 5 * chunkSize
             THEN << lastPeriod + 1 >> ELSE << >>
      breakPoints == bp1 \o bp2 \o bp3
      \* stable sort by |a - end|, first element
      best == CHOOSE i \in 1 .. Len(breakPoints) :
                \A j \in 1 .. Len(breakPoints) :
                  \/ Abs(breakPoints[i] - end) < Abs(breakPoints[j] - end)
                  \/ (Abs(breakPoints[i] - end) = Abs(breakPoints[j] - end) /\ i <= j)
  IN IF Len(breakPoints) > 0 THEN breakPoints[best] ELSE end

\* pdfService.js:308 and 431-462.  avgCharsPerPage = avgNum / pages, a rational;
\* every comparison is multiplied through by pages.
EstimatePage(text, start, end, totalPages) ==
  LET pages == Max(totalPages, 1)
      avgNum == Max(MinCharsPerPage * pages, text.len)
      startPageEstimate == Max(1, ((start * pages) \div avgNum) + 1)
      middlePageEstimate == Max(1, (((start + end) * pages) \div (2 * avgNum)) + 1)
      endPageEstimate == Max(1, ((end * pages) \div avgNum) + 1)
      contentInStartPage == Max(0, Min(startPageEstimate * avgNum, end * pages) - start * pages)
      contentInEndPage == Max(0, end * pages - Max((endPageEstimate - 1) * avgNum, start * pages))
      estimatedPage == IF startPageEstimate # endPageEstimate
                       THEN (IF contentInEndPage > contentInStartPage
                             THEN endPageEstimate ELSE startPageEstimate)
                       ELSE middlePageEstimate
  IN Max(1, Min(estimatedPage, totalPages))

RECURSIVE ChunkWalkGap(_, _, _, _, _, _, _)
\* a loop that advances with start = end + overlap
ChunkWalkGap(text, chunkSize, overlap, totalPages, start, chunks, fuel) ==
  IF ~(start < text.len) THEN [chunks |-> chunks, hangs |-> FALSE]
  ELSE IF fuel = 0 THEN [chunks |-> chunks, hangs |-> TRUE]
  ELSE
    LET nominal == start + chunkSize
        end == IF nominal < text.len THEN BreakPoint(text, start, nominal, chunkSize)
               ELSE nominal
        chunk == Trim(Slice(text, start, end))
        chunks2 == IF chunk.len > 0
                   THEN Append(chunks, [text |-> chunk,
                                        startChar |-> start,
                                        endChar |-> end,
                                        estimatedPage |-> EstimatePage(text, start, end, totalPages),
                                        chunkIndex |-> Len(chunks)])
                   ELSE chunks
    IN ChunkWalkGap(text, chunkSize, overlap, totalPages, end + overlap, chunks2, fuel - 1)

RECURSIVE ChunkWalk(_, _, _, _, _, _, _)
\* pdfService.js:342-488, the while loop; fuel bounds the iterations followed
ChunkWalk(text, chunkSize, overlap, totalPages, start, chunks, fuel) ==
  IF ~(start < text.len) THEN [chunks |-> chunks, hangs |-> FALSE]
  ELSE IF fuel = 0 THEN [chunks |-> chunks, hangs |-> TRUE]
  ELSE
    LET nominal == start + chunkSize
        end == IF nominal < text.len THEN BreakPoint(text, start, nominal, chunkSize)
               ELSE nominal
        chunk == Trim(Slice(text, start, end))
        chunks2 == IF chunk.len > 0
                   THEN Append(chunks, [text |-> chunk,
                                        startChar |-> start,
                                        endChar |-> end,
                                        estimatedPage |-> EstimatePage(text, start, end, totalPages),
                                        chunkIndex |-> Len(chunks)])
                   ELSE chunks
    IN ChunkWalk(text, chunkSize, overlap, totalPages, end - overlap, chunks2, fuel - 1)

ChunkText(text, chunkSize, overlap, totalPages) ==
  LET financial == IsFinancialDoc(text)
      size == IF financial THEN 2500 ELSE chunkSize
      ovl == IF financial THEN 500 ELSE overlap
  IN ChunkWalk(text, size, ovl, totalPages, 0, << >>, MaxWalk)

(***************************************************************************)
(* State.                                                                  *)
(***************************************************************************)
VARIABLES
  jobs,            \* JobQueue.jobs: jobId -> job (a Map, iterated in insertion order)
  processing,      \* JobQueue.processing: set of jobIds
  documentStatus,  \* DocumentStatusService.documentStatus: documentId -> statusInfo
  memoryStore,     \* MemoryVectorService.memoryStore: four parallel arrays
  task,            \* jobId -> the suspended continuation of startJob/processPdfJob
  progressLog,     \* jobId -> the progress values emitted as 'progress' events
  statusLog,       \* jobId -> the values assigned to job.status, in order
  nextId,          \* the next upload (stands for the fresh uuids of job and document)
  now,             \* Date.now(), in periods of the cleanup timer (30 minutes)
  useLlamaParse,   \* process.env.LLAMAPARSE_API_KEY is set to a usable key
  calls,           \* callId -> a store call suspended at its await of the gateway
  reply,           \* what the store call that settled last resolved or rejected with
  deleted,         \* documentIds deleted and not handed to vectorizeDocument since
  chunkCall        \* a call of chunkText: its arguments and, once it returned, its value

\* the state of the clients that call the store and the chunker directly
clientVars == << calls, reply, deleted, chunkCall >>

vars == << jobs, processing, documentStatus, memoryStore, task, progressLog,
           statusLog, nextId, now, useLlamaParse, clientVars >>

JobIds == 1 .. MaxJobs

(***************************************************************************)
(* External collaborators: what the awaited calls can deliver.             *)
(***************************************************************************)
\* a scanned page: white space only
BlankText == MkText(2, (0 :> " ") @@ (1 :> "\n"))
\* 900 letters: longer than chunkSize - overlap, shorter than chunkSize
LongText == MkText(900, << >>)
\* a title and a question
ShortText == MkText(3, << >>)
QueryText == MkText(5, << >>)

\* pdf-parse / LlamaParse results: {text, numPages}
PdfResults ==
  { [text |-> BlankText, numPages |-> 1],
    [text |-> LongText, numPages |-> 2] }

\* generateEmbeddings(chunks) when it resolves: one fixed-length vector per
\* text, in order
EmbedResults(n) ==
  { [i \in 1 .. n |-> IF i % 2 = 1 THEN << 1, 0 >> ELSE << 0, 1 >>] }

\* The embedding of one text.  The gateway answers from its primary provider
\* or, in a deployment with a fallback chain, from the local heuristic, whose
\* vectors have another length.
Embedding(provider, text) ==
  IF provider = "local"
  THEN (IF text.len >= 500 THEN << 1, 0, 0 >> ELSE << 0, 0, 1 >>)
  ELSE CASE text.len >= 500 -> << 1, 0 >>
         [] text.len >= 50 /\ text.len < 500 -> << 0, 1 >>
         [] text.len >= 4 /\ text.len < 50 -> << 3, 4 >>
         [] OTHER -> << 2, 0 >>

\* generateEmbeddings(texts) answered by one provider: one vector per text, in order
GatewayEmbeddings(provider, texts) ==
  [i \in 1 .. Len(texts) |-> Embedding(provider, texts[i])]

(***************************************************************************)
(* DocumentStatusService.                                                  *)
(***************************************************************************)
STATUS == [UPLOADING |-> "uploading", UPLOADED |-> "uploaded",
           PROCESSING |-> "processing", VECTORIZING |-> "vectorizing",
           COMPLETED |-> "completed", ERROR |-> "error"]

MetaGet(metadata, key) == IF key \in DOMAIN metadata THEN metadata[key] ELSE Undefined

\* setStatus: a fresh statusInfo object replaces the stored one
TrackerSetStatus(ds, documentId, status, metadata) ==
  (documentId :> [documentId |-> documentId,
                  status |-> status,
                  progress |-> MetaGet(metadata, "progress"),
                  numPages |-> MetaGet(metadata, "numPages"),
                  chunksCreated |-> MetaGet(metadata, "chunksCreated"),
                  error |-> MetaGet(metadata, "error")]) @@ ds

TrackerGetStatus(ds, documentId) ==
  IF documentId \in DOMAIN ds THEN Some(ds[documentId]) ELSE Null

\* isReadyForChat that accepts every document the tracker knows
IsReadyForChatLoose(ds, documentId) == TrackerGetStatus(ds, documentId) # Null

IsReadyForChat(ds, documentId) ==
  /\ TrackerGetStatus(ds, documentId) # Null
  /\ ds[documentId].status = STATUS.COMPLETED

TrackerUpdateProgress(ds, documentId, progress) ==
  IF TrackerGetStatus(ds, documentId) # Null
  THEN [ds EXCEPT ![documentId].progress = Some(progress)]
  ELSE ds

TrackerMarkCompleted(ds, documentId, completionData) ==
  TrackerSetStatus(ds, documentId, STATUS.COMPLETED,
                   completionData @@ [progress |-> Some(100)])

TrackerMarkError(ds, documentId, error) ==
  TrackerSetStatus(ds, documentId, STATUS.ERROR, [error |-> Some(error)])

(***************************************************************************)
(* JobQueue.  The operators below work on a heap record                    *)
(*   h = [jobs, processing, documentStatus, task, progressLog, statusLog]  *)
(* so that the synchronous call chains of the code (completeJob ->         *)
(* processNext -> startJob -> processPdfJob -> updateProgress ...) compose. *)
(* t is Date.now() and llama the LlamaParse switch at the time of the call. *)
(***************************************************************************)
Heap == [jobs |-> jobs, processing |-> processing, documentStatus |-> documentStatus,
         task |-> task, progressLog |-> progressLog, statusLog |-> statusLog]

\* the caller's 10 + progress * 0.6 of processPdfJob's extraction callback
ExtractionProgress(progress) == 10 + (progress * 6) \div 10

\* jobQueue.js:49-63
UpdateProgress(h, jobId, progress) ==
  IF jobId \in DOMAIN h.jobs
  THEN LET p == Min(100, Max(0, progress))
           job == h.jobs[jobId]
       IN [h EXCEPT
             !.jobs[jobId].progress = p,
             !.progressLog[jobId] = Append(@, p),
             !.documentStatus =
                IF job.type = "pdf_processing"
                THEN TrackerUpdateProgress(@, job.documentId, p)
                ELSE @]
  ELSE h

\* pdfService.js:101-104: whatever readFile or pdfParse threw, wrapped
LocalFailure == "Failed to process PDF locally: <cause>"

\* processPDFLocal up to its first await (pdfService.js:13-17), called with onProgress
ProcessPDFLocalStart(h, jobId) ==
  [UpdateProgress(h, jobId, ExtractionProgress(10)) EXCEPT
     !.task = (jobId :> [pc |-> "readFile", pdfResult |-> Null, error |-> Null,
                         chunkObjects |-> << >>]) @@ @]

\* processPdfJob and processPDF up to the first await
\* (jobQueue.js:165-178, pdfService.js:253-277)
ProcessPdfJobStart(h, jobId, llama) ==
  LET h1 == UpdateProgress(h, jobId, 10)
      h2 == UpdateProgress(h1, jobId, ExtractionProgress(0))
  IN IF llama
     THEN [UpdateProgress(h2, jobId, ExtractionProgress(20)) EXCEPT
             !.task = (jobId :> [pc |-> "llamaParse", pdfResult |-> Null, error |-> Null,
                                 chunkObjects |-> << >>]) @@ @]
     ELSE ProcessPDFLocalStart(UpdateProgress(h2, jobId, ExtractionProgress(40)), jobId)

\* jobQueue.js:141-160, up to the await of processPdfJob
StartJob(h, jobId, t, llama) ==
  IF jobId \notin DOMAIN h.jobs \/ h.jobs[jobId].status # "queued" THEN h
  ELSE LET h1 == [h EXCEPT !.jobs[jobId].status = "processing",
                           !.statusLog[jobId] = Append(@, "processing"),
                           !.jobs[jobId].startedAt = Some(Date),
                           !.processing = @ \cup {jobId}]
       IN IF h1.jobs[jobId].type = "pdf_processing"
          THEN ProcessPdfJobStart(h1, jobId, llama)
          ELSE h1

\* processNext that takes the queued job added last
ProcessNextNewest(h, t, llama) ==
  IF Cardinality(h.processing) >= maxConcurrent THEN h
  ELSE LET queued == {j \in DOMAIN h.jobs : h.jobs[j].status = "queued"}
       IN IF queued # {}
          THEN StartJob(h, SetMax(queued, 0), t, llama)
          ELSE h

\* processNext without its capacity test
ProcessNextUnbounded(h, t, llama) ==
  LET queued == {j \in DOMAIN h.jobs : h.jobs[j].status = "queued"}
  IN IF queued # {}
     THEN StartJob(h, SetMin(queued, 0), t, llama)
     ELSE h

\* jobQueue.js:124-136.  The Map yields the jobs in insertion order, which is
\* the order of the ids.
ProcessNext(h, t, llama) ==
  IF Cardinality(h.processing) >= maxConcurrent THEN h
  ELSE LET queued == {j \in DOMAIN h.jobs : h.jobs[j].status = "queued"}
       IN IF queued # {}
          THEN StartJob(h, SetMin(queued, 0), t, llama)
          ELSE h

\* jobQueue.js:16-37
AddJob(h, jobId, jobData, t, llama) ==
  LET job == [id |-> jobId,
              type |-> jobData.type,
              documentId |-> jobData.documentId,
              status |-> "queued",
              progress |-> 0,
              createdAt |-> Date,
              startedAt |-> Null,
              completedAt |-> Null,
              error |-> Null,
              result |-> Null]
  IN ProcessNext([h EXCEPT !.jobs = (jobId :> job) @@ @,
                           !.statusLog[jobId] = Append(@, job.status)], t, llama)

\* completeJob that frees the slot but does not call processNext
CompleteJobNoNext(h, jobId, result, t, llama) ==
  IF jobId \in DOMAIN h.jobs
  THEN LET job == h.jobs[jobId]
       IN [h EXCEPT
             !.jobs[jobId].status = "completed",
             !.statusLog[jobId] = Append(@, "completed"),
             !.jobs[jobId].progress = 100,
             !.jobs[jobId].completedAt = Some(t),
             !.jobs[jobId].result = Some(result),
             !.processing = @ \ {jobId},
             !.documentStatus =
                TrackerMarkCompleted(@, job.documentId,
                  [numPages |-> Some(result.numPages),
                   chunksCreated |-> result.chunksCreated])]
  ELSE h

\* completeJob that leaves completedAt alone
CompleteJobNoTimestamp(h, jobId, result, t, llama) ==
  IF jobId \in DOMAIN h.jobs
  THEN LET job == h.jobs[jobId]
           h1 == [h EXCEPT
                    !.jobs[jobId].status = "completed",
                    !.statusLog[jobId] = Append(@, "completed"),
                    !.jobs[jobId].progress = 100,
                    !.jobs[jobId].result = Some(result),
                    !.processing = @ \ {jobId},
                    !.documentStatus =
                       IF job.type = "pdf_processing"
                       THEN TrackerMarkCompleted(@, job.documentId,
                              [numPages |-> Some(result.numPages),
                               chunksCreated |-> result.chunksCreated])
                       ELSE @]
       IN ProcessNext(h1, t, llama)
  ELSE h

\* jobQueue.js:68-95
CompleteJob(h, jobId, result, t, llama) ==
  IF jobId \in DOMAIN h.jobs
  THEN LET job == h.jobs[jobId]
           h1 == [h EXCEPT
                    !.jobs[jobId].status = "completed",
                    !.statusLog[jobId] = Append(@, "completed"),
                    !.jobs[jobId].progress = 100,
                    !.jobs[jobId].completedAt = Some(t),
                    !.jobs[jobId].result = Some(result),
                    !.processing = @ \ {jobId},
                    !.documentStatus =
                       IF job.type = "pdf_processing"
                       THEN TrackerMarkCompleted(@, job.documentId,
                              [numPages |-> Some(result.numPages),
                               chunksCreated |-> result.chunksCreated])
                       ELSE @]
       IN ProcessNext(h1, t, llama)
  ELSE h

\* failJob without its call of processNext
FailJobNoNext(h, jobId, error, t, llama) ==
  IF jobId \in DOMAIN h.jobs
  THEN LET job == h.jobs[jobId]
           h1 == [h EXCEPT
                    !.jobs[jobId].status = "failed",
                    !.statusLog[jobId] = Append(@, "failed"),
                    !.jobs[jobId].completedAt = Some(t),
                    !.jobs[jobId].error = Some(error),
                    !.processing = @ \ {jobId},
                    !.documentStatus =
                       IF job.type = "pdf_processing"
                       THEN TrackerMarkError(@, job.documentId, error)
                       ELSE @]
       IN h1
  ELSE h

\* failJob that puts the job back in line for another attempt
FailJobRequeue(h, jobId, error, t, llama) ==
  IF jobId \in DOMAIN h.jobs
  THEN ProcessNext([h EXCEPT
                      !.jobs[jobId].status = "queued",
                      !.statusLog[jobId] = Append(@, "queued"),
                      !.jobs[jobId].error = Some(error),
                      !.processing = @ \ {jobId}], t, llama)
  ELSE h

\* failJob that reports the error and then queues the job for another attempt
FailJobRetry(h, jobId, error, t, llama) ==
  IF jobId \in DOMAIN h.jobs
  THEN ProcessNext([h EXCEPT
                      !.jobs[jobId].status = "queued",
                      !.statusLog[jobId] = Append(@, "queued"),
                      !.jobs[jobId].error = Some(error),
                      !.processing = @ \ {jobId},
                      !.documentStatus =
                         TrackerMarkError(@, h.jobs[jobId].documentId, error)],
                   t, llama)
  ELSE h

\* failJob that leaves the tracker alone
FailJobNoTracker(h, jobId, error, t, llama) ==
  IF jobId \in DOMAIN h.jobs
  THEN ProcessNext([h EXCEPT
                      !.jobs[jobId].status = "failed",
                      !.statusLog[jobId] = Append(@, "failed"),
                      !.jobs[jobId].completedAt = Some(t),
                      !.jobs[jobId].error = Some(error),
                      !.processing = @ \ {jobId}], t, llama)
  ELSE h

\* jobQueue.js:100-119
FailJob(h, jobId, error, t, llama) ==
  IF jobId \in DOMAIN h.jobs
  THEN LET job == h.jobs[jobId]
           h1 == [h EXCEPT
                    !.jobs[jobId].status = "failed",
                    !.statusLog[jobId] = Append(@, "failed"),
                    !.jobs[jobId].completedAt = Some(t),
                    !.jobs[jobId].error = Some(error),
                    !.processing = @ \ {jobId},
                    !.documentStatus =
                       IF job.type = "pdf_processing"
                       THEN TrackerMarkError(@, job.documentId, error)
                       ELSE @]
       IN ProcessNext(h1, t, llama)
  ELSE h

\* the continuation of job jobId has run to its end
EndTask(h, jobId) ==
  [h EXCEPT !.task = [k \in (DOMAIN @) \ {jobId} |-> @[k]]]

\* cleanup that frees the payload of an old job instead of deleting the job
CleanupDropsResult(js, t) ==
  [j \in DOMAIN js |->
     IF /\ js[j].status \in {"completed", "failed"}
        /\ js[j].completedAt # Null
        /\ js[j].completedAt[1] < t - OneHour
     THEN [js[j] EXCEPT !.result = Null, !.error = Null]
     ELSE js[j]]

\* cleanup with <= for < : a job exactly one hour old goes too
CleanupInclusive(js, t) ==
  LET removed == {j \in DOMAIN js :
                    /\ js[j].status \in {"completed", "failed"}
                    /\ js[j].completedAt # Null
                    /\ js[j].completedAt[1] <= t - OneHour}
  IN [j \in (DOMAIN js) \ removed |-> js[j]]

\* jobQueue.js:246-261
Cleanup(js, t) ==
  LET oneHourAgo == t - OneHour
      removed == {j \in DOMAIN js :
                    /\ js[j].status \in {"completed", "failed"}
                    /\ js[j].completedAt # Null
                    /\ js[j].completedAt[1] < oneHourAgo}
  IN [j \in (DOMAIN js) \ removed |-> js[j]]

(***************************************************************************)
(* MemoryVectorService.vectorizeDocument (memoryVectorService.js:32-86).   *)
(***************************************************************************)
\* memoryVectorService.js:38-43, after `await this.initialize()`.  The call
\* passes three arguments to chunkText, so totalPages takes its default.
VectorizeChunks(text) == ChunkText(text, VecChunkSize, VecOverlap, DefaultTotalPages).chunks

\* a vectorizeDocument that resolves without having pushed anything
StoreAppendDropped(store, documentId, chunkObjects, embeddings, metadata) == store

\* memoryVectorService.js:52-70: the four pushes, run without an await between
StoreAppend(store, documentId, chunkObjects, embeddings, metadata) ==
  LET n == Len(chunkObjects)
      ids == [i \in 1 .. n |-> << documentId, "_chunk_", i - 1 >>]
      documents == [i \in 1 .. n |-> chunkObjects[i].text]
      metadatas == [i \in 1 .. n |->
                      [document_id |-> documentId,
                       chunk_index |-> i - 1,
                       chunk_text |-> Slice(chunkObjects[i].text, 0, 100),
                       page_number |-> chunkObjects[i].estimatedPage,
                       start_char |-> chunkObjects[i].startChar,
                       end_char |-> chunkObjects[i].endChar,
                       numPages |-> metadata.numPages]]
  IN [ids |-> store.ids \o ids,
      embeddings |-> store.embeddings \o embeddings,
      documents |-> store.documents \o documents,
      metadatas |-> store.metadatas \o metadatas]

\* memoryVectorService.js:75-80, the value vectorizeDocument resolves to
VectorResult(documentId, chunkObjects) ==
  [success |-> TRUE, documentId |-> documentId, chunkCount |-> Len(chunkObjects)]

\* jobQueue.js:212-220, the result handed to completeJob
JobResult(job, pdfResult, vectorResult) ==
  [documentId |-> job.documentId,
   numPages |-> pdfResult.numPages,
   chunksCreated |-> Prop(vectorResult, "chunksCreated")]

\* the square root of a perfect square
Sqrt(n) == CHOOSE r \in 0 .. n : r * r = n

RECURSIVE SumTo(_, _)
\* Array.prototype.reduce((sum, x) => sum + f(x), 0) over indices 1..n
SumTo(f, n) == IF n = 0 THEN 0 ELSE SumTo(f, n - 1) + f[n]

NaN == [num |-> 0, den |-> 0]

\* memoryVectorService.js:134-139.  The quotient dotProduct / (magnitudeA *
\* magnitudeB) is kept as a fraction; vecB[i] past the end of vecB is
\* undefined and makes the dot product NaN.
CosineSimilarity(vecA, vecB) ==
  IF Len(vecB) < Len(vecA) THEN NaN
  ELSE LET dotProduct == SumTo([i \in 1 .. Len(vecA) |-> vecA[i] * vecB[i]], Len(vecA))
           magnitudeA == Sqrt(SumTo([i \in 1 .. Len(vecA) |-> vecA[i] * vecA[i]], Len(vecA)))
           magnitudeB == Sqrt(SumTo([i \in 1 .. Len(vecB) |-> vecB[i] * vecB[i]], Len(vecB)))
       IN IF magnitudeA * magnitudeB = 0 THEN NaN
          ELSE [num |-> dotProduct, den |-> magnitudeA * magnitudeB]

\* the sign of comparator(a, b) = b.similarity - a.similarity is positive
SortsAfter(a, b) == a.similarity.num * b.similarity.den < b.similarity.num * a.similarity.den

RECURSIVE SortResultsAscending(_)
\* a sort whose comparator is a.similarity - b.similarity
SortResultsAscending(results) ==
  IF Len(results) <= 1 THEN results
  ELSE LET sorted == SortResultsAscending(SubSeq(results, 1, Len(results) - 1))
           x == results[Len(results)]
           keep == {k \in 1 .. Len(sorted) : ~SortsAfter(x, sorted[k])}
           at == IF \A k \in 1 .. Len(sorted) : k \in keep THEN Len(sorted)
                 ELSE (CHOOSE k \in 1 .. Len(sorted) :
                         k \notin keep /\ \A l \in 1 .. k - 1 : l \in keep) - 1
       IN SubSeq(sorted, 1, at) \o << x >> \o SubSeq(sorted, at + 1, Len(sorted))

RECURSIVE SortResults(_)
\* results.sort((a, b) => b.similarity - a.similarity): Array.prototype.sort
\* is stable; the last element goes behind every element that the comparator
\* does not put after it
SortResults(results) ==
  IF Len(results) <= 1 THEN results
  ELSE LET sorted == SortResults(SubSeq(results, 1, Len(results) - 1))
           x == results[Len(results)]
           keep == {k \in 1 .. Len(sorted) : ~SortsAfter(sorted[k], x)}
           at == IF \A k \in 1 .. Len(sorted) : k \in keep THEN Len(sorted)
                 ELSE (CHOOSE k \in 1 .. Len(sorted) :
                         k \notin keep /\ \A l \in 1 .. k - 1 : l \in keep) - 1
       IN SubSeq(sorted, 1, at) \o << x >> \o SubSeq(sorted, at + 1, Len(sorted))

RECURSIVE MatchingResults(_, _, _, _)
\* memoryVectorService.js:102-116, the loop over the first n records
MatchingResults(store, queryEmbedding, documentId, n) ==
  IF n = 0 THEN << >>
  ELSE LET before == MatchingResults(store, queryEmbedding, documentId, n - 1)
       IN IF documentId # Null /\ store.metadatas[n].document_id # documentId[1]
          THEN before
          ELSE Append(before,
                 [content |-> store.documents[n],
                  similarity |-> CosineSimilarity(queryEmbedding, store.embeddings[n]),
                  metadata |-> store.metadatas[n],
                  id |-> store.ids[n]])

\* a search that forgets the documentId filter
SearchSimilarChunksUnfiltered(store, queryEmbedding, documentId, limit) ==
  LET results == SortResults(MatchingResults(store, queryEmbedding, Null,
                                             Len(store.embeddings)))
  IN SubSeq(results, 1, SliceIdx(limit, Len(results)))

\* memoryVectorService.js:98-123, after generateEmbeddings([query]) resolved.
\* documentId is Null (no filter) or Some(d).
SearchSimilarChunks(store, queryEmbedding, documentId, limit) ==
  LET results == SortResults(MatchingResults(store, queryEmbedding, documentId,
                                             Len(store.embeddings)))
  IN SubSeq(results, 1, SliceIdx(limit, Len(results)))

RECURSIVE RemoveIndicesForward(_, _)
\* the splices made in ascending order, each index read after the earlier
\* removals have shifted the array
RemoveIndicesForward(array, indicesToRemove) ==
  IF indicesToRemove = {} THEN array
  ELSE LET index == SetMin(indicesToRemove, 0)
       IN RemoveIndicesForward(
            IF index > Len(array) THEN array
            ELSE SubSeq(array, 1, index - 1) \o SubSeq(array, index + 1, Len(array)),
            indicesToRemove \ {index})

RECURSIVE RemoveIndices(_, _)
\* memoryVectorService.js:153-160: splice(index, 1) for the indices in reverse order
RemoveIndices(array, indicesToRemove) ==
  IF indicesToRemove = {} THEN array
  ELSE LET index == SetMax(indicesToRemove, 0)
       IN RemoveIndices(SubSeq(array, 1, index - 1) \o SubSeq(array, index + 1, Len(array)),
                        indicesToRemove \ {index})

\* a deleteDocument that forgets to splice the embeddings array
DeleteDocumentKeepsEmbeddings(store, documentId) ==
  LET indicesToRemove == {i \in 1 .. Len(store.metadatas) :
                            store.metadatas[i].document_id = documentId}
  IN [ids |-> RemoveIndices(store.ids, indicesToRemove),
      embeddings |-> store.embeddings,
      documents |-> RemoveIndices(store.documents, indicesToRemove),
      metadatas |-> RemoveIndices(store.metadatas, indicesToRemove)]

\* memoryVectorService.js:144-169: the store after deleteDocument(documentId)
DeleteDocument(store, documentId) ==
  LET indicesToRemove == {i \in 1 .. Len(store.metadatas) :
                            store.metadatas[i].document_id = documentId}
  IN [ids |-> RemoveIndices(store.ids, indicesToRemove),
      embeddings |-> RemoveIndices(store.embeddings, indicesToRemove),
      documents |-> RemoveIndices(store.documents, indicesToRemove),
      metadatas |-> RemoveIndices(store.metadatas, indicesToRemove)]

\* memoryVectorService.js:183-201
GetDocumentStats(store, documentId) ==
  LET matching == {i \in 1 .. Len(store.metadatas) :
                     store.metadatas[i].document_id = documentId}
  IN [documentId |-> documentId,
      chunkCount |-> Cardinality(matching),
      metadata |-> IF matching = {} THEN Null
                   ELSE Some(store.metadatas[SetMin(matching, 0)])]

(***************************************************************************)
(* Actions.                                                                *)
(***************************************************************************)
Install(h) ==
  /\ jobs' = h.jobs
  /\ processing' = h.processing
  /\ documentStatus' = h.documentStatus
  /\ task' = h.task
  /\ progressLog' = h.progressLog
  /\ statusLog' = h.statusLog

Init ==
  /\ jobs = << >>
  /\ processing = {}
  /\ documentStatus = << >>
  /\ memoryStore = [ids |-> << >>, embeddings |-> << >>, documents |-> << >>,
                    metadatas |-> << >>]
  /\ task = << >>
  /\ progressLog = [j \in JobIds |-> << >>]
  /\ statusLog = [j \in JobIds |-> << >>]
  /\ nextId = 1
  /\ now = 0
  /\ useLlamaParse = FALSE
  /\ calls = << >>
  /\ reply = Null
  /\ deleted = {}
  /\ chunkCall = Null

\* POST /upload of the last revision of routes/pdf.js: both branches (large and
\* small document) set UPLOADED, then PROCESSING, then add the job.
Upload ==
  /\ nextId <= MaxJobs
  /\ LET documentId == nextId
         jobId == nextId
         ds1 == TrackerSetStatus(documentStatus, documentId, STATUS.UPLOADED, << >>)
         ds2 == TrackerSetStatus(ds1, documentId, STATUS.PROCESSING, << >>)
         h == [Heap EXCEPT !.documentStatus = ds2]
     IN Install(AddJob(h, jobId, [type |-> "pdf_processing", documentId |-> documentId],
                       now, useLlamaParse))
  /\ nextId' = nextId + 1
  /\ UNCHANGED << memoryStore, now, useLlamaParse, clientVars >>

\* processPDFWithLlamaParse resolves (pdfService.js:264-267, 284-292)
LlamaParseOk(j, r) ==
  /\ j \in DOMAIN task /\ task[j].pc = "llamaParse"
  /\ Install([UpdateProgress(Heap, j, ExtractionProgress(100)) EXCEPT
                !.task[j].pc = "unlink", !.task[j].pdfResult = Some(r)])
  /\ UNCHANGED << memoryStore, nextId, now, useLlamaParse, clientVars >>

\* processPDFWithLlamaParse rejects: fall back to local (pdfService.js:268-277)
LlamaParseFail(j) ==
  /\ j \in DOMAIN task /\ task[j].pc = "llamaParse"
  /\ LET h1 == UpdateProgress(Heap, j, ExtractionProgress(30))
         h2 == UpdateProgress(h1, j, ExtractionProgress(40))
     IN Install(ProcessPDFLocalStart(h2, j))
  /\ UNCHANGED << memoryStore, nextId, now, useLlamaParse, clientVars >>

\* fs.readFile resolves (pdfService.js:17-21)
ReadFileOk(j) ==
  /\ j \in DOMAIN task /\ task[j].pc = "readFile"
  /\ Install([UpdateProgress(Heap, j, ExtractionProgress(30)) EXCEPT
                !.task[j].pc = "pdfParse"])
  /\ UNCHANGED << memoryStore, nextId, now, useLlamaParse, clientVars >>

\* fs.readFile rejects (pdfService.js:101-104, 281-292)
ReadFileFail(j) ==
  /\ j \in DOMAIN task /\ task[j].pc = "readFile"
  /\ Install([Heap EXCEPT !.task[j].pc = "unlink",
                          !.task[j].error = Some(LocalFailure)])
  /\ UNCHANGED << memoryStore, nextId, now, useLlamaParse, clientVars >>

\* pdfParse resolves (pdfService.js:21-100, 278-279, 284-292)
PdfParseOk(j, r) ==
  /\ j \in DOMAIN task /\ task[j].pc = "pdfParse"
  /\ LET h1 == UpdateProgress(Heap, j, ExtractionProgress(60))
         h2 == UpdateProgress(h1, j, ExtractionProgress(90))
         h3 == UpdateProgress(h2, j, ExtractionProgress(100))
     IN Install([h3 EXCEPT !.task[j].pc = "unlink", !.task[j].pdfResult = Some(r)])
  /\ UNCHANGED << memoryStore, nextId, now, useLlamaParse, clientVars >>

\* pdfParse rejects (pdfService.js:101-104, 281-292)
PdfParseFail(j) ==
  /\ j \in DOMAIN task /\ task[j].pc = "pdfParse"
  /\ Install([Heap EXCEPT !.task[j].pc = "unlink",
                          !.task[j].error = Some(LocalFailure)])
  /\ UNCHANGED << memoryStore, nextId, now, useLlamaParse, clientVars >>

\* fs.unlink settles and processPDF settles; processPdfJob goes on to
\* vectorizeDocument, whose `await this.initialize()` resumes in the same
\* macrotask (jobQueue.js:180-209, 222-224; memoryVectorService.js:36-50)
UnlinkDone(j) ==
  /\ j \in DOMAIN task /\ task[j].pc = "unlink"
  /\ IF task[j].error # Null
     THEN Install(FailJob(EndTask(Heap, j), j, task[j].error[1], now, useLlamaParse))
     ELSE LET pdfResult == task[j].pdfResult[1]
              h1 == UpdateProgress(Heap, j, 70)
              h2 == [h1 EXCEPT !.documentStatus =
                       TrackerSetStatus(@, h1.jobs[j].documentId, STATUS.VECTORIZING,
                                        [numPages |-> Some(pdfResult.numPages)])]
              chunkObjects == VectorizeChunks(pdfResult.text)
          IN IF Len(chunkObjects) = 0
             THEN Install(FailJob(EndTask(h2, j), j,
                    "Failed to vectorize document: No text chunks generated from document",
                    now, useLlamaParse))
             ELSE Install([h2 EXCEPT !.task[j].pc = "generateEmbeddings",
                                     !.task[j].chunkObjects = chunkObjects])
  /\ UNCHANGED << memoryStore, nextId, now, useLlamaParse, clientVars >>

\* generateEmbeddings resolves: store, return, completeJob
\* (memoryVectorService.js:50-80, jobQueue.js:211-220)
EmbedOk(j, embeddings) ==
  /\ j \in DOMAIN task /\ task[j].pc = "generateEmbeddings"
  /\ LET job == jobs[j]
         pdfResult == task[j].pdfResult[1]
         chunkObjects == task[j].chunkObjects
         vectorResult == VectorResult(job.documentId, chunkObjects)
     IN /\ memoryStore' = StoreAppend(memoryStore, job.documentId, chunkObjects,
                                      embeddings, [numPages |-> pdfResult.numPages])
        /\ Install(CompleteJob(EndTask(Heap, j), j, JobResult(job, pdfResult, vectorResult),
                               now, useLlamaParse))
  /\ UNCHANGED << nextId, now, useLlamaParse, clientVars >>

\* a vectorizeDocument that pushes each chunk as soon as it is embedded, and
\* whose gateway fails after the first chunk
EmbedFailAfterFirstChunk(j) ==
  /\ j \in DOMAIN task /\ task[j].pc = "generateEmbeddings"
  /\ memoryStore' = StoreAppend(memoryStore, jobs[j].documentId,
                                SubSeq(task[j].chunkObjects, 1, 1), << << 1, 0 >> >>,
                                [numPages |-> task[j].pdfResult[1].numPages])
  /\ Install(FailJob(EndTask(Heap, j), j,
                     "Failed to vectorize document: embedding gateway failed",
                     now, useLlamaParse))
  /\ UNCHANGED << nextId, now, useLlamaParse, clientVars >>

\* generateEmbeddings rejects (memoryVectorService.js:82-85, jobQueue.js:222-224)
EmbedFail(j) ==
  /\ j \in DOMAIN task /\ task[j].pc = "generateEmbeddings"
  /\ Install(FailJob(EndTask(Heap, j), j,
                     "Failed to vectorize document: embedding gateway failed",
                     now, useLlamaParse))
  /\ UNCHANGED << memoryStore, nextId, now, useLlamaParse, clientVars >>

\* the setInterval callback (jobQueue.js:268-270).  The clock is read in
\* periods of this timer, so it advances exactly when the timer fires.
CleanupTimer ==
  /\ now < MaxTime
  /\ now' = now + 1
  /\ jobs' = Cleanup(jobs, now + 1)
  /\ UNCHANGED << processing, documentStatus, memoryStore, task, progressLog,
                  statusLog, nextId, useLlamaParse, clientVars >>

Next ==
  \/ Upload
  \/ \E j \in JobIds : ReadFileOk(j)
  \/ \E j \in JobIds : ReadFileFail(j)
  \/ \E j \in JobIds, r \in PdfResults : PdfParseOk(j, r)
  \/ \E j \in JobIds : PdfParseFail(j)
  \/ \E j \in JobIds : UnlinkDone(j)
  \/ \E j \in JobIds :
       /\ j \in DOMAIN task
       /\ \E e \in EmbedResults(Len(task[j].chunkObjects)) : EmbedOk(j, e)
  \/ \E j \in JobIds : EmbedFail(j)
  \/ CleanupTimer

\* the server without a LlamaParse key: extraction is local
Spec == Init /\ [][Next]_vars

\* the calls a job awaits: fs.readFile, pdfParse, fs.unlink, generateEmbeddings
Awaits == {"readFile", "pdfParse", "unlink", "generateEmbeddings"}

\* job j is suspended at the call named by pc
AwaitsAt(j, pc) == j \in DOMAIN task /\ task[j].pc = pc

\* every call a job awaits settles: no job stays suspended at one await for
\* ever.  A suspended job has exactly one continuation, which is enabled as
\* long as the job is suspended and which ends the await, so this is weak
\* fairness, WF_vars, of each job's continuation.
SpecLive == Spec /\ \A j \in JobIds, pc \in Awaits : []<>~AwaitsAt(j, pc)

\* the server started with LLAMAPARSE_API_KEY set
InitLlamaParse ==
  /\ jobs = << >>
  /\ processing = {}
  /\ documentStatus = << >>
  /\ memoryStore = [ids |-> << >>, embeddings |-> << >>, documents |-> << >>,
                    metadatas |-> << >>]
  /\ task = << >>
  /\ progressLog = [j \in JobIds |-> << >>]
  /\ statusLog = [j \in JobIds |-> << >>]
  /\ nextId = 1
  /\ now = 0
  /\ useLlamaParse = TRUE
  /\ calls = << >>
  /\ reply = Null
  /\ deleted = {}
  /\ chunkCall = Null

NextLlamaParse ==
  \/ Next
  \/ \E j \in JobIds, r \in PdfResults : LlamaParseOk(j, r)
  \/ \E j \in JobIds : LlamaParseFail(j)

SpecLlamaParse == InitLlamaParse /\ [][NextLlamaParse]_vars

(***************************************************************************)
(* The server under a burst of uploads, more than the two slots and one    *)
(* place in line, between two firings of the cleanup timer.                *)
(***************************************************************************)
BurstIds == 1 .. MaxBurst

InitBurst ==
  /\ jobs = << >>
  /\ processing = {}
  /\ documentStatus = << >>
  /\ memoryStore = [ids |-> << >>, embeddings |-> << >>, documents |-> << >>,
                    metadatas |-> << >>]
  /\ task = << >>
  /\ progressLog = [j \in BurstIds |-> << >>]
  /\ statusLog = [j \in BurstIds |-> << >>]
  /\ nextId = 1
  /\ now = 0
  /\ useLlamaParse = FALSE
  /\ calls = << >>
  /\ reply = Null
  /\ deleted = {}
  /\ chunkCall = Null

\* POST /upload, as Upload
UploadBurst ==
  /\ nextId <= MaxBurst
  /\ LET documentId == nextId
         jobId == nextId
         ds1 == TrackerSetStatus(documentStatus, documentId, STATUS.UPLOADED, << >>)
         ds2 == TrackerSetStatus(ds1, documentId, STATUS.PROCESSING, << >>)
         h == [Heap EXCEPT !.documentStatus = ds2]
     IN Install(AddJob(h, jobId, [type |-> "pdf_processing", documentId |-> documentId],
                       now, useLlamaParse))
  /\ nextId' = nextId + 1
  /\ UNCHANGED << memoryStore, now, useLlamaParse, clientVars >>

NextBurst ==
  \/ UploadBurst
  \/ \E j \in BurstIds : ReadFileOk(j)
  \/ \E j \in BurstIds : ReadFileFail(j)
  \/ \E j \in BurstIds, r \in PdfResults : PdfParseOk(j, r)
  \/ \E j \in BurstIds : PdfParseFail(j)
  \/ \E j \in BurstIds : UnlinkDone(j)
  \/ \E j \in BurstIds :
       /\ j \in DOMAIN task
       /\ \E e \in EmbedResults(Len(task[j].chunkObjects)) : EmbedOk(j, e)
  \/ \E j \in BurstIds : EmbedFail(j)

SpecBurst == InitBurst /\ [][NextBurst]_vars

(***************************************************************************)
(* The tracker as a component: the exported DocumentStatusService instance, *)
(* its mutators called in any order with any documentId.                   *)
(***************************************************************************)
DocIds == 1 .. MaxDocs

CallSetStatus(documentId, status) ==
  /\ documentStatus' = TrackerSetStatus(documentStatus, documentId, status, << >>)
  /\ UNCHANGED << jobs, processing, memoryStore, task, progressLog, statusLog,
                  nextId, now, useLlamaParse, clientVars >>

CallUpdateProgress(documentId, progress) ==
  /\ documentStatus' = TrackerUpdateProgress(documentStatus, documentId, progress)
  /\ UNCHANGED << jobs, processing, memoryStore, task, progressLog, statusLog,
                  nextId, now, useLlamaParse, clientVars >>

CallMarkCompleted(documentId) ==
  /\ documentStatus' = TrackerMarkCompleted(documentStatus, documentId,
                          [numPages |-> Some(1), chunksCreated |-> Some(1)])
  /\ UNCHANGED << jobs, processing, memoryStore, task, progressLog, statusLog,
                  nextId, now, useLlamaParse, clientVars >>

CallMarkError(documentId) ==
  /\ documentStatus' = TrackerMarkError(documentStatus, documentId, LocalFailure)
  /\ UNCHANGED << jobs, processing, memoryStore, task, progressLog, statusLog,
                  nextId, now, useLlamaParse, clientVars >>

NextTracker ==
  \/ \E d \in DocIds, s \in {STATUS[k] : k \in DOMAIN STATUS} : CallSetStatus(d, s)
  \/ \E d \in DocIds, p \in {0, 50, 100} : CallUpdateProgress(d, p)
  \/ \E d \in DocIds : CallMarkCompleted(d)
  \/ \E d \in DocIds : CallMarkError(d)

SpecTracker == Init /\ [][NextTracker]_vars

(***************************************************************************)
(* The store as a component: the functions memoryVectorService exports,    *)
(* called by concurrent clients in any order.  A call that awaits the      *)
(* gateway is suspended in calls until the gateway settles; deleteDocument *)
(* and getDocumentStats have no await and run to completion when called.   *)
(***************************************************************************)
CallIds == 1 .. MaxCalls

StoreTexts == {BlankText, ShortText, LongText}
QueryTexts == {ShortText, QueryText}
StoreDocs == {"docA", "docB"}
Limits == {2}

queueVars == << jobs, processing, documentStatus, task, progressLog, statusLog,
                now, useLlamaParse, chunkCall >>

Suspend(op, documentId, chunkObjects, query, limit) ==
  [op |-> op, documentId |-> documentId, chunkObjects |-> chunkObjects,
   query |-> query, limit |-> limit]

Resolve(op, documentId, value) ==
  [op |-> op, documentId |-> documentId,
   value |-> Some(value), error |-> Null]

Reject(op, documentId, error) ==
  [op |-> op, documentId |-> documentId,
   value |-> Null, error |-> Some(error)]

Settled(c) == [k \in (DOMAIN calls) \ {c} |-> calls[k]]

\* vectorizeDocument(documentId, text, {numPages: 1}) up to its await of the
\* gateway (memoryVectorService.js:32-50)
VectorizeDocument(documentId, text) ==
  /\ nextId <= MaxCalls
  /\ nextId' = nextId + 1
  /\ deleted' = deleted \ {documentId}
  /\ LET chunkObjects == VectorizeChunks(text)
     IN IF Len(chunkObjects) = 0
        THEN /\ reply' = Reject("vectorizeDocument", Some(documentId),
                    "Failed to vectorize document: No text chunks generated from document")
             /\ calls' = calls
        ELSE /\ calls' = (nextId :> Suspend("vectorizeDocument", Some(documentId),
                                            chunkObjects, Null, 0)) @@ calls
             /\ reply' = reply
  /\ UNCHANGED << memoryStore, queueVars >>

\* the gateway resolves: the four pushes and the return (memoryVectorService.js:50-80)
VectorizeEmbedded(c, provider) ==
  /\ c \in DOMAIN calls /\ calls[c].op = "vectorizeDocument"
  /\ LET documentId == calls[c].documentId[1]
         chunkObjects == calls[c].chunkObjects
         chunks == [i \in 1 .. Len(chunkObjects) |-> chunkObjects[i].text]
     IN /\ memoryStore' = StoreAppend(memoryStore, documentId, chunkObjects,
                                      GatewayEmbeddings(provider, chunks), [numPages |-> 1])
        /\ reply' = Resolve("vectorizeDocument", Some(documentId),
                            VectorResult(documentId, chunkObjects))
  /\ calls' = Settled(c)
  /\ UNCHANGED << nextId, deleted, queueVars >>

\* the gateway rejects (memoryVectorService.js:82-85)
VectorizeRejected(c) ==
  /\ c \in DOMAIN calls /\ calls[c].op = "vectorizeDocument"
  /\ reply' = Reject("vectorizeDocument", calls[c].documentId,
                     "Failed to vectorize document: embedding gateway failed")
  /\ calls' = Settled(c)
  /\ UNCHANGED << memoryStore, nextId, deleted, queueVars >>

\* searchSimilarChunks(query, documentId, limit) up to its await of the gateway
\* (memoryVectorService.js:91-96)
SearchStart(query, documentId, limit) ==
  /\ nextId <= MaxCalls
  /\ nextId' = nextId + 1
  /\ calls' = (nextId :> Suspend("searchSimilarChunks", documentId, << >>,
                                 Some(query), limit)) @@ calls
  /\ UNCHANGED << memoryStore, reply, deleted, queueVars >>

\* the gateway resolves: scan, sort, slice, return (memoryVectorService.js:98-123)
SearchEmbedded(c, provider) ==
  /\ c \in DOMAIN calls /\ calls[c].op = "searchSimilarChunks"
  /\ LET queryEmbedding == GatewayEmbeddings(provider, << calls[c].query[1] >>)
     IN reply' = Resolve("searchSimilarChunks", calls[c].documentId,
                   [query |-> queryEmbedding[1],
                    limit |-> calls[c].limit,
                    results |-> SearchSimilarChunks(memoryStore, queryEmbedding[1],
                                                    calls[c].documentId, calls[c].limit)])
  /\ calls' = Settled(c)
  /\ UNCHANGED << memoryStore, nextId, deleted, queueVars >>

\* the gateway rejects (memoryVectorService.js:125-128)
SearchRejected(c) ==
  /\ c \in DOMAIN calls /\ calls[c].op = "searchSimilarChunks"
  /\ reply' = Reject("searchSimilarChunks", calls[c].documentId,
                     "Failed to search similar chunks: embedding gateway failed")
  /\ calls' = Settled(c)
  /\ UNCHANGED << memoryStore, nextId, deleted, queueVars >>

\* deleteDocument(documentId) (memoryVectorService.js:144-169)
DeleteDocumentCall(documentId) ==
  /\ nextId <= MaxCalls
  /\ nextId' = nextId + 1
  /\ memoryStore' = DeleteDocument(memoryStore, documentId)
  /\ deleted' = deleted \cup {documentId}
  /\ reply' = Resolve("deleteDocument", Some(documentId), TRUE)
  /\ UNCHANGED << calls, queueVars >>

\* getDocumentStats(documentId) (memoryVectorService.js:183-201)
GetDocumentStatsCall(documentId) ==
  /\ nextId <= MaxCalls
  /\ nextId' = nextId + 1
  /\ reply' = Resolve("getDocumentStats", Some(documentId),
                      GetDocumentStats(memoryStore, documentId))
  /\ UNCHANGED << memoryStore, calls, deleted, queueVars >>

InitStore ==
  /\ jobs = << >>
  /\ processing = {}
  /\ documentStatus = << >>
  /\ memoryStore = [ids |-> << >>, embeddings |-> << >>, documents |-> << >>,
                    metadatas |-> << >>]
  /\ task = << >>
  /\ progressLog = [j \in JobIds |-> << >>]
  /\ statusLog = [j \in JobIds |-> << >>]
  /\ nextId = 1
  /\ now = 0
  /\ useLlamaParse = FALSE
  /\ calls = << >>
  /\ reply = [op |-> "none", documentId |-> Null, value |-> Null, error |-> Null]
  /\ deleted = {}
  /\ chunkCall = Null

\* what the clients do, whichever provider the gateway answers from
StoreCalls ==
  \/ \E d \in StoreDocs, text \in StoreTexts : VectorizeDocument(d, text)
  \/ \E c \in CallIds : VectorizeRejected(c)
  \/ \E q \in QueryTexts, d \in {Null} \cup {Some(x) : x \in StoreDocs}, limit \in Limits :
       SearchStart(q, d, limit)
  \/ \E c \in CallIds : SearchRejected(c)
  \/ \E d \in StoreDocs : DeleteDocumentCall(d)
  \/ \E d \in StoreDocs : GetDocumentStatsCall(d)

\* a gateway with one provider
NextStore ==
  \/ StoreCalls
  \/ \E c \in CallIds : VectorizeEmbedded(c, "primary")
  \/ \E c \in CallIds : SearchEmbedded(c, "primary")

SpecStore == InitStore /\ [][NextStore]_vars

\* a gateway with a fallback chain: ingestion while either provider answers
NextStoreFallback ==
  \/ \E d \in StoreDocs : VectorizeDocument(d, LongText)
  \/ \E c \in CallIds, provider \in {"primary", "local"} : VectorizeEmbedded(c, provider)
  \/ \E c \in CallIds : VectorizeRejected(c)
  \/ \E d \in StoreDocs : DeleteDocumentCall(d)

SpecStoreFallback == InitStore /\ [][NextStoreFallback]_vars

(***************************************************************************)
(* chunkText on its own: one call with arguments drawn from the sets       *)
(* below.                                                                  *)
(***************************************************************************)
EmptyText == MkText(0, << >>)
\* 800 letters and 201 spaces
TrailingBlankText == MkText(1001, [p \in 800 .. 1000 |-> " "])
PlainText == MkText(2000, << >>)
\* a sentence that ends at position 700
SentenceText == MkText(1200, (700 :> "."))
\* a paragraph that ends at position 400
ParagraphText == MkText(1200, (400 :> "\n") @@ (401 :> "\n"))

ChunkTexts == {EmptyText, BlankText, ShortText, LongText, TrailingBlankText,
               PlainText, SentenceText, ParagraphText}
\* << chunkSize, overlap >>: the store's, the default, one with an overlap of
\* half the chunk size, and two with overlap >= chunkSize
ChunkConfigs == {<< VecChunkSize, VecOverlap >>, << 1500, 300 >>, << 1000, 500 >>,
                 << 1000, 1000 >>, << 200, 300 >>}
ChunkPages == {1, 3, 4}

InitChunker ==
  /\ jobs = << >>
  /\ processing = {}
  /\ documentStatus = << >>
  /\ memoryStore = [ids |-> << >>, embeddings |-> << >>, documents |-> << >>,
                    metadatas |-> << >>]
  /\ task = << >>
  /\ progressLog = [j \in JobIds |-> << >>]
  /\ statusLog = [j \in JobIds |-> << >>]
  /\ nextId = 1
  /\ now = 0
  /\ useLlamaParse = FALSE
  /\ calls = << >>
  /\ reply = Null
  /\ deleted = {}
  /\ \E text \in ChunkTexts, config \in ChunkConfigs, totalPages \in ChunkPages :
       chunkCall = Some([text |-> text, chunkSize |-> config[1], overlap |-> config[2],
                         totalPages |-> totalPages, result |-> Null])

\* chunkText(text, chunkSize, overlap, totalPages) runs; it has no throw
\* statement, so it returns its chunks or never returns
CallChunkText ==
  /\ chunkCall # Null
  /\ chunkCall[1].result = Null
  /\ LET a == chunkCall[1]
         walk == ChunkText(a.text, a.chunkSize, a.overlap, a.totalPages)
     IN chunkCall' = Some([a EXCEPT !.result =
                             Some([chunks |-> walk.chunks,
                                   returns |-> ~walk.hangs,
                                   error |-> Null])])
  /\ UNCHANGED << jobs, processing, documentStatus, task, progressLog, statusLog,
                  memoryStore, nextId, now, useLlamaParse, calls, reply, deleted >>

NextChunker == CallChunkText

SpecChunker == InitChunker /\ [][NextChunker]_vars

(***************************************************************************)
(* The chat handler, POST /message (routes/pdf.js:429-607), in front of a   *)
(* tracker whose mutators are called in any order.                         *)
(***************************************************************************)
\* whether requiresDocumentContext(message) holds is the caller's choice of
\* message
ChatLimit == 5     \* routes/pdf.js:493

\* the response of the handler
Respond(documentId, value) == Resolve("message", Some(documentId), value)
RespondError(documentId, error) == Reject("message", Some(documentId), error)

\* routes/pdf.js:429-493: the handler up to its response or its first await
ChatMessage(documentId, needsDocumentContext) ==
  /\ nextId <= MaxCalls
  /\ nextId' = nextId + 1
  /\ LET status == TrackerGetStatus(documentStatus, documentId)
     IN IF status = Null
        THEN /\ reply' = RespondError(documentId, "DOCUMENT_NOT_FOUND")
             /\ calls' = calls
        ELSE IF ~IsReadyForChat(documentStatus, documentId)
        THEN /\ reply' = RespondError(documentId, "DOCUMENT_PROCESSING")
             /\ calls' = calls
        ELSE IF needsDocumentContext
        THEN /\ calls' = (nextId :> Suspend("searchSimilarChunks", Some(documentId),
                                            << >>, Some(QueryText), ChatLimit)) @@ calls
             /\ reply' = reply
        ELSE /\ reply' = Respond(documentId, [response |-> "general", sources |-> << >>])
             /\ calls' = calls
  /\ UNCHANGED << jobs, processing, documentStatus, memoryStore, task, progressLog,
                  statusLog, now, useLlamaParse, deleted, chunkCall >>

\* routes/pdf.js:493-595: searchSimilarChunks resolved
ChatSearched(c) ==
  /\ c \in DOMAIN calls
  /\ LET documentId == calls[c].documentId[1]
         queryEmbedding == GatewayEmbeddings("primary", << calls[c].query[1] >>)
         relevantChunks == SearchSimilarChunks(memoryStore, queryEmbedding[1],
                                               calls[c].documentId, calls[c].limit)
     IN reply' = Respond(documentId,
                   [response |-> IF Len(relevantChunks) = 0 THEN "nothing relevant"
                                 ELSE "from the document",
                    sources |-> relevantChunks])
  /\ calls' = Settled(c)
  /\ UNCHANGED << memoryStore, nextId, deleted, queueVars >>

\* routes/pdf.js:597-604: searchSimilarChunks rejected
ChatSearchFailed(c) ==
  /\ c \in DOMAIN calls
  /\ reply' = RespondError(calls[c].documentId[1], "Failed to search similar chunks")
  /\ calls' = Settled(c)
  /\ UNCHANGED << memoryStore, nextId, deleted, queueVars >>

\* the document the chat is about
ChatDoc == "docA"

NextChat ==
  \/ \E status \in {STATUS[k] : k \in DOMAIN STATUS} : CallSetStatus(ChatDoc, status)
  \/ \E progress \in {0, 50, 100} : CallUpdateProgress(ChatDoc, progress)
  \/ CallMarkCompleted(ChatDoc)
  \/ CallMarkError(ChatDoc)
  \/ \E needsDocumentContext \in BOOLEAN : ChatMessage(ChatDoc, needsDocumentContext)
  \/ \E c \in CallIds : ChatSearched(c)
  \/ \E c \in CallIds : ChatSearchFailed(c)

SpecChat == InitStore /\ [][NextChat]_vars

(***************************************************************************)
(* Properties of the ingestion pipeline.                                   *)
(***************************************************************************)
Terminal(job) == job.status \in {"completed", "failed"}

JobsWithStatus(status) == {j \in DOMAIN jobs : jobs[j].status = status}

\* the indices of the records of documentId in a store
RecordsOf(store, documentId) ==
  {i \in 1 .. Len(store.metadatas) : store.metadatas[i].document_id = documentId}

IsPrefix(s, t) == Len(s) <= Len(t) /\ SubSeq(t, 1, Len(s)) = s

NonDecreasing(s) == \A i \in 1 .. Len(s) - 1 : s[i] <= s[i + 1]

\* C1: at every moment the number of jobs with status 'processing' is at most
\* maxConcurrent (2) and equals the size of the queue's processing set.
ConcurrencyBound ==
  /\ Cardinality(JobsWithStatus("processing")) <= maxConcurrent
  /\ Cardinality(JobsWithStatus("processing")) = Cardinality(processing)

\* both slots are taken and a third job waits
ConcurrencyBoundReached ==
  /\ Cardinality(JobsWithStatus("processing")) = maxConcurrent
  /\ JobsWithStatus("queued") # {}

ProgressMonotone ==
  \A j \in JobIds :
    /\ \A i \in 1 .. Len(progressLog[j]) : progressLog[j][i] \in 0 .. 100
    /\ NonDecreasing(progressLog[j])

\* C5: when extraction or vectorization throws, the step that handles the
\* exception leaves the job 'failed' with a non-empty error, the tracker
\* record of its document 'error', and isReadyForChat false.
ExtractionThrew(j) ==
  j \in DOMAIN task /\ task[j].error # Null /\ j \notin DOMAIN task'

VectorizationThrew(j) ==
  /\ j \in DOMAIN task /\ task[j].error = Null /\ j \notin DOMAIN task'
  /\ RecordsOf(memoryStore', jobs[j].documentId) = {}

FailureReported ==
  [][\A j \in JobIds :
       (ExtractionThrew(j) \/ VectorizationThrew(j)) =>
         /\ j \in DOMAIN jobs'
         /\ jobs'[j].status = "failed"
         /\ jobs'[j].error # Null /\ jobs'[j].error[1] # ""
         /\ TrackerGetStatus(documentStatus', jobs[j].documentId) # Null
         /\ documentStatus'[jobs[j].documentId].status = STATUS.ERROR
         /\ ~IsReadyForChat(documentStatus', jobs[j].documentId)]_vars

\* one job failed in extraction, another in vectorization
FailureReportedBoth ==
  /\ \E j \in DOMAIN jobs :
       jobs[j].status = "failed" /\ jobs[j].error = Some(LocalFailure)
  /\ \E j \in DOMAIN jobs :
       /\ jobs[j].status = "failed" /\ jobs[j].error # Some(LocalFailure)
       /\ documentStatus[jobs[j].documentId].status = STATUS.ERROR

\* C6: the chunksCreated of a completed job's result, which markCompleted
\* copies to the tracker record, is the number of records appended to the
\* store for the job's document.
ChunksCreatedReported ==
  \A j \in DOMAIN jobs :
    jobs[j].status = "completed" =>
      LET documentId == jobs[j].documentId
          appended == Cardinality(RecordsOf(memoryStore, documentId))
      IN /\ jobs[j].result[1].chunksCreated = Some(appended)
         /\ documentStatus[documentId].chunksCreated = Some(appended)

\* C7: a step either leaves the store as it is or appends, for one job whose
\* embeddings have all arrived, one record per chunk of its document; the
\* document of a failed job has no record in the store.
StoreAllOrNothing ==
  [][/\ \/ memoryStore' = memoryStore
        \/ \E j \in DOMAIN task :
             LET n == Len(task[j].chunkObjects)
                 old == Len(memoryStore.ids)
             IN /\ task[j].pc = "generateEmbeddings" /\ n > 0
                /\ Len(memoryStore'.ids) = old + n
                /\ Len(memoryStore'.embeddings) = old + n
                /\ Len(memoryStore'.documents) = old + n
                /\ Len(memoryStore'.metadatas) = old + n
                /\ SubSeq(memoryStore'.ids, 1, old) = memoryStore.ids
                /\ SubSeq(memoryStore'.metadatas, 1, old) = memoryStore.metadatas
                /\ \A i \in 1 .. n :
                     /\ memoryStore'.metadatas[old + i].document_id = jobs[j].documentId
                     /\ memoryStore'.metadatas[old + i].chunk_index = i - 1
                     /\ memoryStore'.documents[old + i] = task[j].chunkObjects[i].text
                /\ jobs'[j].status = "completed"
     /\ \A j \in DOMAIN jobs' :
          jobs'[j].status = "failed" =>
            RecordsOf(memoryStore', jobs'[j].documentId) = {}]_vars

\* the store holds both records of a two-chunk document, and a job whose
\* embedding call was rejected has failed
StoreAllOrNothingBoth ==
  /\ \E j \in DOMAIN jobs :
       /\ jobs[j].status = "completed"
       /\ Cardinality(RecordsOf(memoryStore, jobs[j].documentId)) = 2
  /\ \E j \in DOMAIN jobs :
       /\ jobs[j].status = "failed"
       /\ jobs[j].error = Some("Failed to vectorize document: embedding gateway failed")

\* C8: no job is 'queued' while fewer than maxConcurrent jobs are 'processing'.
WorkConserving ==
  JobsWithStatus("queued") # {} =>
    Cardinality(JobsWithStatus("processing")) >= maxConcurrent

\* a job that had to wait has been promoted into a slot another job left
WorkConservingPromoted ==
  \E j \in DOMAIN jobs :
    /\ j > maxConcurrent
    /\ jobs[j].status = "processing"
    /\ \E k \in DOMAIN jobs : Terminal(jobs[k])

\* C9: a cleanup removes exactly the jobs that are 'completed' or 'failed' and
\* whose completedAt is more than one hour old; it changes no field of a job
\* it keeps and leaves the processing set alone; nothing else removes a job.
CleanupExact ==
  [][IF now' # now
     THEN /\ DOMAIN jobs' \subseteq DOMAIN jobs
          /\ \A j \in DOMAIN jobs :
               j \notin DOMAIN jobs' <=>
                 /\ Terminal(jobs[j])
                 /\ jobs[j].completedAt # Null
                 /\ now' - jobs[j].completedAt[1] > OneHour
          /\ \A j \in DOMAIN jobs' : jobs'[j] = jobs[j]
          /\ processing' = processing
     ELSE DOMAIN jobs \subseteq DOMAIN jobs']_vars

\* a cleanup has removed an old job and kept a finished job that is not yet
\* more than one hour old, while another job is being processed
CleanupExactSelective ==
  /\ \E k \in JobIds : k < nextId /\ k \notin DOMAIN jobs
  /\ \E j \in DOMAIN jobs :
       Terminal(jobs[j]) /\ now - jobs[j].completedAt[1] = OneHour
  /\ processing # {}

\* the place of a status in uploading < uploaded < processing < vectorizing
\* < completed
StatusRank(status) ==
  CASE status = STATUS.UPLOADING -> 0
    [] status = STATUS.UPLOADED -> 1
    [] status = STATUS.PROCESSING -> 2
    [] status = STATUS.VECTORIZING -> 3
    [] status = STATUS.COMPLETED -> 4

\* C10: under any sequence of setStatus, updateProgress, markCompleted and
\* markError, the stored status of a document never moves backward in
\* uploading < uploaded < processing < vectorizing < completed; the only other
\* move is into 'error' from a status that is not terminal; no move leaves
\* 'completed' or 'error'.
TrackerMonotone ==
  [][\A d \in DOMAIN documentStatus :
       LET old == documentStatus[d].status
           new == documentStatus'[d].status
       IN (d \in DOMAIN documentStatus' /\ new # old) =>
            /\ old \notin {STATUS.COMPLETED, STATUS.ERROR}
            /\ new = STATUS.ERROR \/ StatusRank(new) > StatusRank(old)]_vars

SearchReply == reply.op = "searchSimilarChunks" /\ reply.value # Null

\* C12: a search filtered to a document returns only records of that document.
SearchIsolation ==
  (SearchReply /\ reply.documentId # Null) =>
    \A k \in 1 .. Len(reply.value[1].results) :
      reply.value[1].results[k].metadata.document_id = reply.documentId[1]

\* a search filtered to docA has returned records while the store holds
\* records of docB as well
SearchIsolationAmongTwo ==
  /\ SearchReply /\ reply.documentId = Some("docA")
  /\ Len(reply.value[1].results) >= 1
  /\ RecordsOf(memoryStore, "docB") # {}
  /\ calls = << >> /\ nextId > MaxCalls

\* C13: after deleteDocument(docA), and until docA is handed to
\* vectorizeDocument again, getDocumentStats(docA).chunkCount is 0 and a search
\* filtered to docA returns nothing, whatever else runs in between.
DeletedStaysEmpty ==
  \A d \in deleted :
    /\ GetDocumentStats(memoryStore, d).chunkCount = 0
    /\ \A q \in QueryTexts, limit \in Limits :
         SearchSimilarChunks(memoryStore, Embedding("primary", q), Some(d), limit) = << >>

\* C14: deleteDocument returns true when it removed at least one record and
\* false when the store held no record of the document.
DeleteReportsRemoval ==
  [][(nextId' # nextId /\ calls' = calls /\ reply'.op = "deleteDocument") =>
       reply'.value = Some(RecordsOf(memoryStore, reply'.documentId[1]) # {})]_vars

\* the records a search has to choose from
Matching(store, documentId) ==
  {i \in 1 .. Len(store.metadatas) :
     documentId = Null \/ store.metadatas[i].document_id = documentId[1]}

\* record j comes before record i: it is more similar to the query, or as
\* similar and inserted earlier
Before(store, q, j, i) ==
  LET sj == CosineSimilarity(q, store.embeddings[j])
      si == CosineSimilarity(q, store.embeddings[i])
  IN \/ sj.num * si.den > si.num * sj.den
     \/ (sj.num * si.den = si.num * sj.den /\ j < i)

\* the first min(limit, m) of the m matching records in that order
TopRanked(store, q, documentId, limit) ==
  LET M == Matching(store, documentId)
      at(k) == CHOOSE i \in M : Cardinality({j \in M : Before(store, q, j, i)}) = k - 1
  IN [k \in 1 .. Min(limit, Cardinality(M)) |->
        [content |-> store.documents[at(k)],
         similarity |-> CosineSimilarity(q, store.embeddings[at(k)]),
         metadata |-> store.metadatas[at(k)],
         id |-> store.ids[at(k)]]]

\* C15: a search returns the first min(limit, m) of the m matching records in
\* the order of descending cosine similarity, equal similarities in insertion
\* order; it never returns more than limit records, and the result for a
\* smaller limit is a prefix of it.
SearchRanked ==
  [][\A c \in DOMAIN calls :
       (c \notin DOMAIN calls' /\ calls[c].op = "searchSimilarChunks"
          /\ reply'.error = Null) =>
         LET results == reply'.value[1].results
             q == reply'.value[1].query
         IN /\ results = TopRanked(memoryStore, q, calls[c].documentId, calls[c].limit)
            /\ Len(results) <= calls[c].limit
            /\ \A k \in 0 .. calls[c].limit :
                 SearchSimilarChunks(memoryStore, q, calls[c].documentId, k)
                   = SubSeq(results, 1, Min(k, Len(results)))]_vars

\* a search over three or more records has returned two records of different
\* documents that tie, the record between them in the store being left out
SearchRankedTie ==
  /\ SearchReply /\ reply.documentId = Null
  /\ Len(memoryStore.ids) >= 3
  /\ Len(reply.value[1].results) = 2
  /\ reply.value[1].results[1].similarity = reply.value[1].results[2].similarity
  /\ reply.value[1].results[1].metadata.document_id
       # reply.value[1].results[2].metadata.document_id
  /\ reply.value[1].results[1].id = memoryStore.ids[1]
  /\ reply.value[1].results[2].id # memoryStore.ids[2]

\* C16: all embeddings in the store have the same length, because an add whose
\* embeddings differ in length from the stored ones is rejected.
EmbeddingsSameLength ==
  \A i, j \in 1 .. Len(memoryStore.embeddings) :
    Len(memoryStore.embeddings[i]) = Len(memoryStore.embeddings[j])

\* C17: the ids in the store are pairwise distinct, each the
\* '<documentId>_chunk_<chunkIndex>' of its own record.
IdsUnique ==
  /\ \A i \in 1 .. Len(memoryStore.ids) :
       memoryStore.ids[i] = << memoryStore.metadatas[i].document_id, "_chunk_",
                               memoryStore.metadatas[i].chunk_index >>
  /\ \A i, j \in 1 .. Len(memoryStore.ids) :
       i # j => memoryStore.ids[i] # memoryStore.ids[j]

\* id, embedding, text and metadata belong to one record
OneRecord(id, embedding, document, metadata) ==
  /\ id = << metadata.document_id, "_chunk_", metadata.chunk_index >>
  /\ metadata.chunk_text = Slice(document, 0, 100)
  /\ embedding = Embedding("primary", document)

\* C18: between any two steps of concurrent vectorizeDocument,
\* searchSimilarChunks and deleteDocument calls the four arrays have the same
\* length and hold, at each index, the parts of one record; every record a
\* search returns is whole.
StoreAligned ==
  /\ Len(memoryStore.embeddings) = Len(memoryStore.ids)
  /\ Len(memoryStore.documents) = Len(memoryStore.ids)
  /\ Len(memoryStore.metadatas) = Len(memoryStore.ids)
  /\ \A i \in 1 .. Len(memoryStore.ids) :
       OneRecord(memoryStore.ids[i], memoryStore.embeddings[i],
                 memoryStore.documents[i], memoryStore.metadatas[i])
  /\ SearchReply =>
       \A k \in 1 .. Len(reply.value[1].results) :
         LET r == reply.value[1].results[k]
         IN /\ OneRecord(r.id, Embedding("primary", r.content), r.content, r.metadata)
            /\ r.similarity = CosineSimilarity(reply.value[1].query,
                                               Embedding("primary", r.content))

\* a document has been deleted from a store that still holds records, while
\* an ingestion is suspended at the gateway
StoreAlignedInterleaved ==
  /\ deleted # {}
  /\ Len(memoryStore.ids) >= 1
  /\ \E c \in DOMAIN calls : calls[c].op = "vectorizeDocument"

(***************************************************************************)
(* Properties of chunkText.                                                *)
(***************************************************************************)
\* the call of chunkText has run
ChunkDone == chunkCall # Null /\ chunkCall[1].result # Null

\* position p lies in the [startChar, endChar) span of an emitted chunk
Covered(chunks, p) ==
  \E k \in 1 .. Len(chunks) : chunks[k].startChar <= p /\ p < chunks[k].endChar

\* C19: chunkText with overlap >= chunkSize on a non-empty text is rejected
\* with an InvalidConfiguration error; it does not loop forever.
BadOverlapRejected ==
  (/\ ChunkDone
   /\ chunkCall[1].overlap >= chunkCall[1].chunkSize
   /\ chunkCall[1].text.len > 0) =>
    chunkCall[1].result[1].error = Some("InvalidConfiguration")

\* C20 as stated: the spans of the emitted chunks cover every character
\* position of the text.
SpansCoverText ==
  (ChunkDone /\ chunkCall[1].result[1].returns) =>
    \A p \in 0 .. chunkCall[1].text.len - 1 :
      Covered(chunkCall[1].result[1].chunks, p)

\* C20: the spans of the emitted chunks cover every character of the text
\* that is not white space.
SpansCoverNonBlank ==
  (ChunkDone /\ chunkCall[1].result[1].returns) =>
    \A p \in 0 .. chunkCall[1].text.len - 1 :
      ~IsSpace(CharAt(chunkCall[1].text, p)) =>
        Covered(chunkCall[1].result[1].chunks, p)

\* chunkText has returned chunks for a text of letters and white space, and
\* a white-space position lies in no span
SpansLeaveBlankOut ==
  /\ ChunkDone /\ chunkCall[1].result[1].returns
  /\ Len(chunkCall[1].result[1].chunks) >= 1
  /\ \E p \in 0 .. chunkCall[1].text.len - 1 :
       /\ IsSpace(CharAt(chunkCall[1].text, p))
       /\ ~Covered(chunkCall[1].result[1].chunks, p)
  /\ \E p \in 0 .. chunkCall[1].text.len - 1 :
       ~IsSpace(CharAt(chunkCall[1].text, p))

\* C21: for a text shorter than the chunk size chunkText returns exactly one
\* chunk (stated here for the texts that hold a character other than white
\* space, which leaves the case of no chunk at all aside).
ShortTextOneChunk ==
  (/\ ChunkDone /\ chunkCall[1].result[1].returns
   /\ chunkCall[1].text.len < chunkCall[1].chunkSize
   /\ \E p \in 0 .. chunkCall[1].text.len - 1 : ~IsSpace(CharAt(chunkCall[1].text, p))) =>
    Len(chunkCall[1].result[1].chunks) = 1

(***************************************************************************)
(* Further properties of the job queue.                                    *)
(***************************************************************************)
\* how often value was assigned, by the log of the assignments
Count(log, values) == Cardinality({i \in DOMAIN log : log[i] \in values})

\* C22: startedAt is set exactly when the job has left 'queued', which it
\* does through 'processing' and once; completedAt is set exactly when the
\* job is 'completed' or 'failed', and once; result is set only on a
\* completed job and error only on a failed one.
JobFieldsConsistent ==
  \A j \in DOMAIN jobs :
    /\ (jobs[j].startedAt # Null) <=> (jobs[j].status # "queued")
    /\ (jobs[j].startedAt # Null) <=> (Count(statusLog[j], {"processing"}) = 1)
    /\ Count(statusLog[j], {"processing"}) <= 1
    /\ (jobs[j].completedAt # Null) <=> (jobs[j].status \in {"completed", "failed"})
    /\ (jobs[j].completedAt # Null) <=> (Count(statusLog[j], {"completed", "failed"}) = 1)
    /\ Count(statusLog[j], {"completed", "failed"}) <= 1
    /\ (jobs[j].result # Null) => (jobs[j].status = "completed")
    /\ (jobs[j].error # Null) => (jobs[j].status = "failed")

\* a completed job with its result, a failed job with its error and a
\* running job, side by side
JobFieldsAllKinds ==
  \E a, b, c \in DOMAIN jobs :
    /\ jobs[a].status = "completed" /\ jobs[a].result # Null /\ jobs[a].completedAt # Null
    /\ jobs[b].status = "failed" /\ jobs[b].error # Null /\ jobs[b].startedAt # Null
    /\ jobs[c].status = "processing" /\ jobs[c].startedAt # Null
    /\ jobs[c].completedAt = Null /\ jobs[c].result = Null /\ jobs[c].error = Null

\* C23: every record stored by ingestion carries the page that chunkText
\* estimates for its span against the page count of the document it was cut
\* from.
PageNumberFromRealPageCount ==
  \A i \in 1 .. Len(memoryStore.metadatas) :
    \A r \in PdfResults :
      (/\ r.numPages = memoryStore.metadatas[i].numPages
       /\ memoryStore.documents[i]
            = Trim(Slice(r.text, memoryStore.metadatas[i].start_char,
                         memoryStore.metadatas[i].end_char))) =>
        memoryStore.metadatas[i].page_number
          = EstimatePage(r.text, memoryStore.metadatas[i].start_char,
                         memoryStore.metadatas[i].end_char, r.numPages)

\* C24: whenever a document is ready for chat, the store already holds a
\* record of it.
ReadyImpliesStored ==
  \A d \in DOMAIN documentStatus :
    IsReadyForChat(documentStatus, d) => RecordsOf(memoryStore, d) # {}

\* a document is ready for chat while another job is still running
ReadyWhileOthersRun ==
  /\ \E d \in DOMAIN documentStatus :
       IsReadyForChat(documentStatus, d) /\ RecordsOf(memoryStore, d) # {}
  /\ processing # {}

(***************************************************************************)
(* Properties of the chat handler.                                         *)
(***************************************************************************)
\* C25: a chat request starts a vector search only if the tracker reports
\* the document 'completed' at that moment; for a document the tracker does
\* not know it answers DOCUMENT_NOT_FOUND and for every other status
\* DOCUMENT_PROCESSING, in both cases without a search.
ChatGate ==
  [][nextId' # nextId =>
       LET status == TrackerGetStatus(documentStatus, ChatDoc)
       IN /\ status = Null =>
               /\ reply' = RespondError(ChatDoc, "DOCUMENT_NOT_FOUND")
               /\ calls' = calls
          /\ (status # Null /\ status[1].status # STATUS.COMPLETED) =>
               /\ reply' = RespondError(ChatDoc, "DOCUMENT_PROCESSING")
               /\ calls' = calls
          /\ \A c \in (DOMAIN calls') \ (DOMAIN calls) :
               /\ calls'[c].op = "searchSimilarChunks"
               /\ calls'[c].documentId = Some(ChatDoc)
               /\ status # Null /\ status[1].status = STATUS.COMPLETED]_vars

\* a request was let through to the search while the document was
\* 'completed', and a later request, the document being in 'error' by then,
\* was answered DOCUMENT_PROCESSING
ChatGateBothWays ==
  /\ \E c \in DOMAIN calls : calls[c].op = "searchSimilarChunks"
  /\ reply = RespondError(ChatDoc, "DOCUMENT_PROCESSING")
  /\ TrackerGetStatus(documentStatus, ChatDoc) # Null
  /\ documentStatus[ChatDoc].status = STATUS.ERROR

\* C26: if every extraction and embedding call settles, every job that was
\* added reaches 'completed' or 'failed', also behind jobs that fail.
EveryJobEnds ==
  \A j \in JobIds :
    (statusLog[j] # << >>) ~> (Count(statusLog[j], {"completed", "failed"}) = 1)

\* the third job has been started and has ended, both jobs added before it
\* having failed
EndedBehindFailures ==
  /\ Count(statusLog[1], {"failed"}) = 1
  /\ Count(statusLog[2], {"failed"}) = 1
  /\ Count(statusLog[3], {"processing"}) = 1
  /\ Count(statusLog[3], {"completed", "failed"}) = 1

\* the characters of the span [start, end) that lie on page p, times pages,
\* the pages being consecutive ranges of avgNum / pages characters
ShareOfPage(p, start, end, avgNum, pages) ==
  Max(0, Min(p * avgNum, end * pages) - Max((p - 1) * avgNum, start * pages))

\* C27: a chunk whose span straddles estimated page boundaries is assigned to
\* a page that holds the largest share of the span, clamped to
\* [1, totalPages], also when the span touches three or more pages.
PageOfLargestShare ==
  (ChunkDone /\ chunkCall[1].result[1].returns) =>
    LET a == chunkCall[1]
        pages == Max(a.totalPages, 1)
        avgNum == Max(MinCharsPerPage * pages, a.text.len)
    IN \A k \in 1 .. Len(a.result[1].chunks) :
         LET chunk == a.result[1].chunks[k]
             first == ((chunk.startChar * pages) \div avgNum) + 1
             last == ((chunk.endChar * pages) \div avgNum) + 1
         IN first # last =>
              \E p \in first .. last :
                /\ \A q \in first .. last :
                     ShareOfPage(q, chunk.startChar, chunk.endChar, avgNum, pages)
                       <= ShareOfPage(p, chunk.startChar, chunk.endChar, avgNum, pages)
                /\ chunk.estimatedPage = Max(1, Min(p, a.totalPages))

\* C28: with 0 <= overlap < chunkSize the walk makes progress, whatever
\* break point is chosen: the start offset grows from one iteration to the
\* next and the loop ends.
WalkProgresses ==
  (/\ ChunkDone
   /\ 0 <= chunkCall[1].overlap
   /\ chunkCall[1].overlap < chunkCall[1].chunkSize) =>
    /\ chunkCall[1].result[1].returns
    /\ \A k \in 1 .. Len(chunkCall[1].result[1].chunks) - 1 :
         chunkCall[1].result[1].chunks[k].startChar
           < chunkCall[1].result[1].chunks[k + 1].startChar

\* C29: jobs are started in the order they were added: no job goes from
\* 'queued' to 'processing' while a job added earlier is still 'queued'.
PromotedInOrder ==
  [][\A j \in DOMAIN jobs :
       (/\ jobs[j].status = "queued"
        /\ j \in DOMAIN jobs' /\ jobs'[j].status # "queued") =>
         \A k \in DOMAIN jobs : k < j => jobs[k].status # "queued"]_vars

\* of two jobs that waited in line, the one added first has been started
\* and the other still waits
FirstOfTwoStarted ==
  /\ DOMAIN jobs = 1 .. 4
  /\ jobs[3].status = "processing"
  /\ jobs[4].status = "queued"
  /\ Cardinality(processing) = maxConcurrent

(***************************************************************************)
(* Further properties of the store.                                        *)
(***************************************************************************)
\* record i of the store: the entries of the four arrays at index i
RecordAt(store, i) ==
  << store.ids[i], store.embeddings[i], store.documents[i], store.metadatas[i] >>

\* the records of every document but documentId, in store order
OtherRecords(store, documentId) ==
  LET Keep(i) == store.metadatas[i].document_id # documentId
      F[i \in 0 .. Len(store.metadatas)] ==
        IF i = 0 THEN << >>
        ELSE IF Keep(i) THEN Append(F[i - 1], RecordAt(store, i)) ELSE F[i - 1]
  IN F[Len(store.metadatas)]

\* C30: deleteDocument(docA) leaves the records of every other document as
\* they were: the same ids, embeddings, texts and metadata, aligned by index
\* and in the same relative order; nothing but docA's records is removed and
\* nothing is added.
DeleteLeavesOthers ==
  [][(nextId' # nextId /\ calls' = calls /\ reply'.op = "deleteDocument") =>
       LET documentId == reply'.documentId[1]
       IN /\ OtherRecords(memoryStore', documentId)
               = OtherRecords(memoryStore, documentId)
          /\ Len(memoryStore'.ids) = Len(OtherRecords(memoryStore, documentId))
          /\ Len(memoryStore'.embeddings) = Len(memoryStore'.ids)
          /\ Len(memoryStore'.documents) = Len(memoryStore'.ids)
          /\ Len(memoryStore'.metadatas) = Len(memoryStore'.ids)]_vars

\* deleteDocument(docA) has just returned and the store holds the records of
\* docB, more than one, and no other
DeletedInFrontOfOthers ==
  /\ reply.op = "deleteDocument"
  /\ reply.documentId = Some("docA")
  /\ "docB" \notin deleted
  /\ Len(memoryStore.ids) >= 2
  /\ \A i \in 1 .. Len(memoryStore.ids) : memoryStore.metadatas[i].document_id = "docB"

====
